---- MODULE Spec2Model ----
(***************************************************************************)
(* Model of the /api/events route handler (GET) of the world-events         *)
(* aggregator: source selection, concurrent per-source fetch with local     *)
(* failure capture, normalizeEvent, merge, dedup by url, text filter, sort  *)
(* by recency and limit.                                                    *)
(*                                                                          *)
(* Representation.  A JavaScript string is a tuple of one-character         *)
(* strings, so trim, toLowerCase, includes and the /^https?:\/\// test are  *)
(* computed character by character.  An optional value (undefined or a      *)
(* value) is a tuple of length 0 or 1.  A date string is a record           *)
(* [fmt, t]: fmt "iso" is the output format of Date.toISOString, "rfc" a    *)
(* human-formatted date that Date parses, "bad" a non-empty string that     *)
(* Date does not parse, "empty" the empty string; t is the instant.         *)
(* rss-parser sets isoDate only from a Date.toISOString call, so isoDate,   *)
(* when present, has fmt "iso".                                             *)
(***************************************************************************)
EXTENDS Integers, Sequences, FiniteSets, TLC

VARIABLES
    feeds,        \* source index -> the raw items its feed document holds
    fails,        \* the sources whose parser.parseURL rejects (error or timeout)
    queryParam,   \* searchParams.get("query"): optional string
    regionParam,  \* searchParams.get("region"): optional string
    limitParam,   \* searchParams.get("limit"): optional string
    pc,           \* position of GET: "start", "fetching" (awaiting Promise.all), "done"
    query,        \* const query (optional string)
    region,       \* const region (string)
    limit,        \* const limit
    sources,      \* const sources: sequence of registry indices
    pending,      \* selected sources whose async callback has not settled
    results,      \* source index -> value its async callback resolved with
    settled,      \* the sources in the order their callbacks settled
    response      \* body handed to NextResponse.json

vars == <<feeds, fails, queryParam, regionParam, limitParam, pc, query, region,
          limit, sources, pending, results, settled, response>>

(***************************************************************************)
(* Bounds of the model.                                                     *)
(***************************************************************************)
MaxTotal == 3      \* items in all feeds together (aggregation specification)
MaxTime == 2       \* instants are 1..MaxTime
BigFeed == 31      \* length of the longest feed (limit specification)
MaxMedia == 2      \* entries of a media:content list (normalizer specification)

(***************************************************************************)
(* Optional values and strings.                                             *)
(***************************************************************************)
None == <<>>
Some(x) == <<x>>
Val(o) == o[1]

NaN == -1

Range(s) == {s[i] : i \in 1..Len(s)}

IsWs(c) == c = " " \/ c = "\t"

LowerChar(c) ==
    CASE c = "A" -> "a"
      [] c = "B" -> "b"
      [] c = "E" -> "e"
      [] c = "F" -> "f"
      [] c = "G" -> "g"
      [] c = "S" -> "s"
      [] c = "U" -> "u"
      [] OTHER -> c

RECURSIVE toLowerCase(_)
toLowerCase(s) ==
    IF s = <<>> THEN <<>> ELSE <<LowerChar(Head(s))>> \o toLowerCase(Tail(s))

RECURSIVE trimStart(_)
trimStart(s) ==
    IF s = <<>> THEN <<>>
    ELSE IF IsWs(Head(s)) THEN trimStart(Tail(s)) ELSE s

RECURSIVE trimEnd(_)
trimEnd(s) ==
    IF s = <<>> THEN <<>>
    ELSE IF IsWs(s[Len(s)]) THEN trimEnd(SubSeq(s, 1, Len(s) - 1)) ELSE s

trim(s) == trimEnd(trimStart(s))

includes(haystack, needle) ==
    \E i \in 0..(Len(haystack) - Len(needle)) :
        SubSeq(haystack, i + 1, i + Len(needle)) = needle

HasPrefix(s, p) == Len(s) >= Len(p) /\ SubSeq(s, 1, Len(p)) = p

\* /^https?:\/\//.test(u)
HttpPattern(u) ==
    \/ HasPrefix(u, <<"h", "t", "t", "p", ":", "/", "/">>)
    \/ HasPrefix(u, <<"h", "t", "t", "p", "s", ":", "/", "/">>)

\* value.replace(/\s+/g, " ")
RECURSIVE collapseWs(_)
collapseWs(s) ==
    IF s = <<>> THEN <<>>
    ELSE IF IsWs(Head(s)) THEN <<" ">> \o collapseWs(trimStart(s))
    ELSE <<Head(s)>> \o collapseWs(Tail(s))

sanitizeSummary(value) ==
    IF value = None \/ Val(value) = <<>> THEN <<>>
    ELSE trim(collapseWs(Val(value)))

(***************************************************************************)
(* Dates.                                                                   *)
(***************************************************************************)
\* new Date(s).getTime()
DateParse(d) == IF d.fmt = "iso" \/ d.fmt = "rfc" THEN d.t ELSE NaN

\* Date.prototype.toISOString of a valid instant
toISOString(t) == [fmt |-> "iso", t |-> t]

\* Number.parseInt(s, 10): leading white space, an optional sign, then the
\* longest run of decimal digits; NaN (None here) when there is no digit.
Digits == <<"0", "1", "2", "3", "4", "5", "6", "7", "8", "9">>
IsDigit(c) == \E i \in 1..10 : Digits[i] = c
DigitVal(c) == (CHOOSE i \in 1..10 : Digits[i] = c) - 1

RECURSIVE digitRun(_, _)
digitRun(s, acc) ==
    IF s = <<>> \/ ~IsDigit(Head(s)) THEN acc
    ELSE digitRun(Tail(s), 10 * acc + DigitVal(Head(s)))

parseInt(str) ==
    LET s == trimStart(str)
        neg == s # <<>> /\ Head(s) = "-"
        body == IF s # <<>> /\ (Head(s) = "-" \/ Head(s) = "+") THEN Tail(s) ELSE s
    IN  IF body = <<>> \/ ~IsDigit(Head(body)) THEN None
        ELSE Some(IF neg THEN 0 - digitRun(body, 0) ELSE digitRun(body, 0))

(***************************************************************************)
(* The feed source registry (EVENT_SOURCES of @/lib/eventSources): an       *)
(* ordered list of descriptors.  name and homepage travel with id and are   *)
(* not modelled apart from it.  The third source carries a capitalised      *)
(* region tag.                                                              *)
(***************************************************************************)
TagEu == <<"e", "u">>
TagAs == <<"a", "s">>
TagAf == <<"A", "f">>
Global == <<"g", "l", "o", "b", "a", "l">>

EVENT_SOURCES ==
    << [id |-> "s1", regions |-> <<TagEu>>],
       [id |-> "s2", regions |-> <<TagAs>>],
       [id |-> "s3", regions |-> <<TagAf, TagEu>>] >>

SourceIdx == 1..Len(EVENT_SOURCES)

(***************************************************************************)
(* normalizeEvent                                                           *)
(***************************************************************************)
\* const url = item.link ?? ""
ItemUrl(item) == IF item.link = None THEN <<>> ELSE Val(item.link)

\* const title = item.title?.trim()
ItemTitle(item) == IF item.title = None THEN None ELSE Some(trim(Val(item.title)))

\* item.pubDate is truthy and new Date(item.pubDate) is an Invalid Date:
\* toISOString raises a RangeError
DateThrows(item) ==
    /\ item.isoDate = None
    /\ item.pubDate # None
    /\ Val(item.pubDate).fmt # "empty"
    /\ DateParse(Val(item.pubDate)) = NaN

\* item.isoDate ?? (item.pubDate ? new Date(item.pubDate).toISOString() : undefined)
ResolvePublishedAt(item) ==
    IF item.isoDate # None THEN item.isoDate
    ELSE IF item.pubDate # None /\ Val(item.pubDate).fmt # "empty"
         THEN Some(toISOString(DateParse(Val(item.pubDate))))
         ELSE None

\* a variant that does not look at the url
RejectedIgnoringUrl(title, url, publishedAt) ==
    \/ title = None \/ Val(title) = <<>>
    \/ publishedAt = None \/ Val(publishedAt).fmt = "empty"

\* !title || !url || !publishedAt
Rejected(title, url, publishedAt) ==
    \/ title = None \/ Val(title) = <<>>
    \/ url = <<>>
    \/ publishedAt = None \/ Val(publishedAt).fmt = "empty"

\* enclosure?.url && /^https?:\/\//.test(enclosure.url)
EnclosureImage(item) ==
    IF /\ item.enclosure # None
       /\ Val(item.enclosure).url # None
       /\ Val(Val(item.enclosure).url) # <<>>
       /\ HttpPattern(Val(Val(item.enclosure).url))
    THEN Val(item.enclosure).url
    ELSE None

\* a variant that finds the first entry whose url matches the pattern
MediaFindMatching(list) ==
    LET hits == {i \in 1..Len(list) :
                    /\ list[i].obj /\ list[i].hasUrl /\ list[i].url # None
                    /\ HttpPattern(Val(list[i].url))}
    IN  IF hits = {} THEN None
        ELSE Some(list[CHOOSE i \in hits : \A j \in hits : i <= j])

\* mediaContent.find((m) => typeof m === "object" && m && "url" in m)
MediaFind(list) ==
    LET hits == {i \in 1..Len(list) : list[i].obj /\ list[i].hasUrl}
    IN  IF hits = {} THEN None
        ELSE Some(list[CHOOSE i \in hits : \A j \in hits : i <= j])

\* the media:content branch: taken when no image is set and the value is an array
MediaImage(item) ==
    IF item.media = None THEN None
    ELSE LET mediaItem == MediaFind(Val(item.media))
         IN  IF /\ mediaItem # None
                /\ Val(mediaItem).url # None
                /\ Val(Val(mediaItem).url) # <<>>
                /\ HttpPattern(Val(Val(mediaItem).url))
             THEN Val(mediaItem).url
             ELSE None

ResolveImage(item) ==
    IF EnclosureImage(item) # None THEN EnclosureImage(item) ELSE MediaImage(item)

\* sanitizeSummary(item.contentSnippet) || sanitizeSummary(item.content)
ResolveSummary(item) ==
    IF sanitizeSummary(item.contentSnippet) # <<>>
    THEN sanitizeSummary(item.contentSnippet)
    ELSE sanitizeSummary(item.content)

\* <<"throw">>: an exception leaves normalizeEvent; <<"null">>: the item is
\* rejected; <<"event", e>>: the WorldEvent e is returned.  s is the index of
\* the source in the registry.
normalizeEvent(s, item) ==
    IF DateThrows(item) THEN <<"throw">>
    ELSE IF Rejected(ItemTitle(item), ItemUrl(item), ResolvePublishedAt(item))
    THEN <<"null">>
    ELSE <<"event",
           [ title |-> Val(ItemTitle(item)),
             summary |-> ResolveSummary(item),
             url |-> ItemUrl(item),
             sourceId |-> EVENT_SOURCES[s].id,
             publishedAt |-> Val(ResolvePublishedAt(item)),
             regions |-> EVENT_SOURCES[s].regions,
             image |-> ResolveImage(item) ]>>

(***************************************************************************)
(* The async callback of sources.map: the value its promise resolves with. *)
(***************************************************************************)
\* (feed.items ?? []).map(normalizeEvent).filter(Boolean)
RECURSIVE MapNormalize(_, _)
MapNormalize(s, items) ==
    IF items = <<>> THEN <<>>
    ELSE LET r == normalizeEvent(s, Head(items))
         IN  IF r[1] = "event" THEN <<r[2]>> \o MapNormalize(s, Tail(items))
             ELSE MapNormalize(s, Tail(items))

\* try { ... } catch { return [] }: a rejected parseURL and an exception
\* raised while mapping the items both end in the catch block
FetchCallback(s, items, fetchFails) ==
    IF fetchFails THEN <<>>
    ELSE IF \E i \in 1..Len(items) : normalizeEvent(s, items[i])[1] = "throw"
    THEN <<>>
    ELSE MapNormalize(s, items)

(***************************************************************************)
(* GET: parameters and source selection                                     *)
(***************************************************************************)
\* searchParams.get("query")?.trim().toLowerCase()
ResolveQuery(param) ==
    IF param = None THEN None ELSE Some(toLowerCase(trim(Val(param))))

\* a variant that compares the parameter as sent, without lower-casing it
ResolveRegionAsSent(param) ==
    IF param # None /\ Val(param) # <<>> /\ Val(param) # Global
    THEN Val(param)
    ELSE Global

\* regionParam && regionParam !== "global" ? regionParam : "global"
ResolveRegion(param) ==
    LET regionLower == IF param = None THEN None ELSE Some(toLowerCase(Val(param)))
    IN  IF regionLower # None /\ Val(regionLower) # <<>> /\ Val(regionLower) # Global
        THEN Val(regionLower)
        ELSE Global

\* Number.isFinite(limitParam) ? Math.max(limitParam, 10) : 60
LimitFloor == 10
LimitDefault == 60

\* a variant without the floor
ResolveLimitUnclamped(param) ==
    LET limitParsed == parseInt(IF param = None THEN <<>> ELSE Val(param))
    IN  IF limitParsed # None THEN Val(limitParsed) ELSE LimitDefault

ResolveLimit(param) ==
    LET limitParsed == parseInt(IF param = None THEN <<>> ELSE Val(param))
    IN  IF limitParsed # None
        THEN (IF Val(limitParsed) > LimitFloor THEN Val(limitParsed) ELSE LimitFloor)
        ELSE LimitDefault

\* EVENT_SOURCES.filter((source) => source.regions.includes(region)),
\* as the ascending sequence of registry indices
RECURSIVE FilterSources(_, _)
FilterSources(i, r) ==
    IF i > Len(EVENT_SOURCES) THEN <<>>
    ELSE IF r \in Range(EVENT_SOURCES[i].regions)
    THEN <<i>> \o FilterSources(i + 1, r)
    ELSE FilterSources(i + 1, r)

SelectSources(r) ==
    IF r = Global THEN [i \in SourceIdx |-> i] ELSE FilterSources(1, r)

(***************************************************************************)
(* GET: merge, dedup, filter, sort, limit                                   *)
(***************************************************************************)
\* a variant that gathers the callbacks' values in the order they settled
PromiseAllBySettleOrder(srcs, res, order) == [i \in 1..Len(order) |-> res[order[i]]]

\* Promise.all resolves with the callbacks' values in the order of the
\* sources array, whatever the order they settled in
PromiseAll(srcs, res, order) == [i \in 1..Len(srcs) |-> res[srcs[i]]]

RECURSIVE Flat(_)
Flat(lists) == IF Len(lists) = 0 THEN <<>> ELSE Head(lists) \o Flat(Tail(lists))

\* the Map keyed by url: a key keeps its first value and its insertion place
RECURSIVE UniqueByUrl(_, _)
UniqueByUrl(events, seen) ==
    IF events = <<>> THEN <<>>
    ELSE IF Head(events).url \in seen THEN UniqueByUrl(Tail(events), seen)
    ELSE <<Head(events)>> \o UniqueByUrl(Tail(events), seen \cup {Head(events).url})

\* a variant that does not lower-case the haystack
HaystackAsWritten(event) == event.title \o <<" ">> \o event.summary

\* `${event.title} ${event.summary}`.toLowerCase()
Haystack(event) == toLowerCase(event.title \o <<" ">> \o event.summary)

\* if (query) events = events.filter(haystack.includes(query))
FilterQuery(events, q) ==
    IF q = None \/ Val(q) = <<>> THEN events
    ELSE SelectSeq(events, LAMBDA e : includes(Haystack(e), Val(q)))

\* the comparator: new Date(b.publishedAt).getTime() - new Date(a.publishedAt).getTime()
Compare(a, b) == DateParse(b.publishedAt) - DateParse(a.publishedAt)

\* Array.prototype.sort is stable: an element goes after every element it
\* does not precede under the comparator
RECURSIVE InsertSorted(_, _)
InsertSorted(sorted, e) ==
    IF sorted = <<>> THEN <<e>>
    ELSE IF Compare(Head(sorted), e) > 0
    THEN <<e>> \o sorted
    ELSE <<Head(sorted)>> \o InsertSorted(Tail(sorted), e)

\* a variant that leaves the events in merge order
SortEventsSkipped(events) == events

RECURSIVE SortEvents(_)
SortEvents(events) ==
    IF events = <<>> THEN <<>>
    ELSE InsertSorted(SortEvents(SubSeq(events, 1, Len(events) - 1)),
                      events[Len(events)])

\* events.slice(0, limit)
Slice(events, n) ==
    IF n >= Len(events) THEN events
    ELSE IF n >= 0 THEN SubSeq(events, 1, n)
    ELSE SubSeq(events, 1, IF Len(events) + n > 0 THEN Len(events) + n ELSE 0)

\* lines 107-133: from the resolved results to the events of the response
Aggregate(lists, q, n) ==
    Slice(SortEvents(FilterQuery(UniqueByUrl(Flat(lists), {}), q)), n)

(***************************************************************************)
(* The request handler as a state machine.                                  *)
(***************************************************************************)
NoResponse == [events |-> <<>>, sources |-> <<>>]

\* lines 79-94: read the parameters, select the sources and start one
\* callback per selected source; GET then awaits Promise.all
GETStart ==
    /\ pc = "start"
    /\ query' = ResolveQuery(queryParam)
    /\ region' = ResolveRegion(regionParam)
    /\ limit' = ResolveLimit(limitParam)
    /\ sources' = SelectSources(ResolveRegion(regionParam))
    /\ pending' = Range(SelectSources(ResolveRegion(regionParam)))
    /\ pc' = "fetching"
    /\ UNCHANGED <<feeds, fails, queryParam, regionParam, limitParam, results,
                   settled, response>>

\* lines 94-104: the callback of source s settles; the callbacks settle in
\* any order
SettleFetch(s) ==
    /\ pc = "fetching"
    /\ s \in pending
    /\ results' = [results EXCEPT ![s] = FetchCallback(s, feeds[s], s \in fails)]
    /\ pending' = pending \ {s}
    /\ settled' = Append(settled, s)
    /\ UNCHANGED <<feeds, fails, queryParam, regionParam, limitParam, pc, query,
                   region, limit, sources, response>>

\* a variant that responds without awaiting the callbacks still pending
RespondWithoutAwait ==
    /\ pc = "fetching"
    /\ response' =
           [ events |-> Aggregate(PromiseAll(sources, results, settled), query, limit),
             sources |-> [i \in 1..Len(sources) |-> EVENT_SOURCES[sources[i]].id] ]
    /\ pc' = "done"
    /\ UNCHANGED <<feeds, fails, queryParam, regionParam, limitParam, query,
                   region, limit, sources, pending, results, settled>>

\* lines 105-145: every callback has settled; merge, dedup, filter, sort,
\* slice and respond
Respond ==
    /\ pc = "fetching"
    /\ pending = {}
    /\ response' =
           [ events |-> Aggregate(PromiseAll(sources, results, settled), query, limit),
             sources |-> [i \in 1..Len(sources) |-> EVENT_SOURCES[sources[i]].id] ]
    /\ pc' = "done"
    /\ UNCHANGED <<feeds, fails, queryParam, regionParam, limitParam, query,
                   region, limit, sources, pending, results, settled>>

Next ==
    \/ GETStart
    \/ \E s \in SourceIdx : SettleFetch(s)
    \/ Respond

\* the locals of GET before the request is read
InitLocals ==
    /\ pc = "start"
    /\ query = None
    /\ region = Global
    /\ limit = LimitDefault
    /\ sources = <<>>
    /\ pending = {}
    /\ results = [s \in SourceIdx |-> <<>>]
    /\ settled = <<>>
    /\ response = NoResponse

(***************************************************************************)
(* Raw feed items.                                                          *)
(***************************************************************************)
Item(link, title, isoDate, pubDate) ==
    [ link |-> link, title |-> title, isoDate |-> isoDate, pubDate |-> pubDate,
      contentSnippet |-> None, content |-> None, enclosure |-> None,
      media |-> None ]

U1 == <<"u", "1">>
U2 == <<"u", "2">>
TitleA == <<"a">>
Iso(t) == [fmt |-> "iso", t |-> t]
Rfc(t) == [fmt |-> "rfc", t |-> t]
BadDate == [fmt |-> "bad", t |-> 0]
EmptyDate == [fmt |-> "empty", t |-> 0]

Times == 1..MaxTime

\* a well-formed item
Good(u, t) == Item(Some(u), Some(TitleA), Some(Iso(t)), Some(Rfc(t)))
\* a well-formed item but for its publish date, which Date does not parse
BadDated(u) == Item(Some(u), Some(TitleA), None, Some(BadDate))

\* the feeds of the three sources, with at most total items together
FeedsUpTo(Pool, total) ==
    UNION { { <<a, b, c>> : a \in [1..l[1] -> Pool], b \in [1..l[2] -> Pool],
                            c \in [1..l[3] -> Pool] } :
            l \in {m \in [1..3 -> 0..total] : m[1] + m[2] + m[3] <= total} }

(***************************************************************************)
(* Aggregation specification: any feeds over a pool of items that share     *)
(* urls and instants, any set of failing fetches, no request parameter.     *)
(***************************************************************************)
AggPool == {Good(U1, t) : t \in Times} \cup {Good(U2, 1), BadDated(U1)}

InitAgg ==
    /\ feeds \in FeedsUpTo(AggPool, MaxTotal)
    /\ fails \in SUBSET SourceIdx
    /\ queryParam = None
    /\ regionParam = None
    /\ limitParam = None
    /\ InitLocals

SpecAgg == InitAgg /\ [][Next]_vars

(***************************************************************************)
(* What the specification calls the events of a source: one event for each *)
(* item of its feed that has a title (non-empty once trimmed), a link and   *)
(* a publish date that parses, in feed order.                               *)
(***************************************************************************)
HasInstant(item) ==
    \/ item.isoDate # None /\ DateParse(Val(item.isoDate)) # NaN
    \/ item.pubDate # None /\ DateParse(Val(item.pubDate)) # NaN

Acceptable(item) ==
    /\ item.title # None /\ trim(Val(item.title)) # <<>>
    /\ item.link # None /\ Val(item.link) # <<>>
    /\ HasInstant(item)

RECURSIVE AcceptedEvents(_, _)
AcceptedEvents(s, items) ==
    IF items = <<>> THEN <<>>
    ELSE IF Acceptable(Head(items)) /\ normalizeEvent(s, Head(items))[1] = "event"
    THEN <<normalizeEvent(s, Head(items))[2]>> \o AcceptedEvents(s, Tail(items))
    ELSE AcceptedEvents(s, Tail(items))

\* per selected source, in registry order: nothing when its fetch fails,
\* else the events of its acceptable items
ExpectedLists ==
    [i \in 1..Len(sources) |->
        IF sources[i] \in fails THEN <<>>
        ELSE AcceptedEvents(sources[i], feeds[sources[i]])]

RegistryIndex(id) == CHOOSE i \in SourceIdx : EVENT_SOURCES[i].id = id

\* C1: partial failure isolation.  Once GET has responded, every selected
\* source, failing or not, is listed in sources; no event of the response
\* comes from a source whose fetch failed; and the events of the non-failing
\* sources, deduplicated, filtered, sorted and limited, are all in the
\* response.
C1_PartialFailureIsolation ==
    pc = "done" =>
        /\ response.sources = [i \in 1..Len(sources) |-> EVENT_SOURCES[sources[i]].id]
        /\ \A e \in Range(response.events) : RegistryIndex(e.sourceId) \notin fails
        /\ Range(Aggregate(ExpectedLists, query, limit)) \subseteq Range(response.events)

\* C2: dedup, first seen wins.  Once GET has responded, no two events of the
\* response share a url, and each is the first event with its url in the
\* merge, in registry order and then feed order, of the events of the
\* selected sources whose fetch did not fail.
FirstWithUrl(events, u) ==
    events[CHOOSE k \in 1..Len(events) :
               /\ events[k].url = u
               /\ \A j \in 1..(k - 1) : events[j].url # u]

C2_DedupFirstSeenWins ==
    pc = "done" =>
        /\ \A i, j \in 1..Len(response.events) :
               response.events[i].url = response.events[j].url => i = j
        /\ \A e \in Range(response.events) :
               /\ \E x \in Range(Flat(ExpectedLists)) : x.url = e.url
               /\ e = FirstWithUrl(Flat(ExpectedLists), e.url)

\* C9: item-level rejection never fails the batch.  When the fetch of a
\* source succeeded and its callback has settled, the callback's result is
\* the events of all the acceptable items of the feed, also when another item
\* of the feed has no ISO date and a publish date that does not parse.
C9_ItemRejectionKeepsBatch ==
    \A s \in Range(settled) :
        (s \notin fails /\ \E k \in 1..Len(feeds[s]) : DateThrows(feeds[s][k]))
            => results[s] = AcceptedEvents(s, feeds[s])

Instant(e) == DateParse(e.publishedAt)

\* C4: sort order.  Once GET has responded, an event of the response that
\* comes before another was published at the same instant or later.
C4_SortOrder ==
    pc = "done" =>
        \A i, j \in 1..Len(response.events) :
            i < j => Instant(response.events[i]) >= Instant(response.events[j])

\* the sort moved a more recent event of a later source ahead of an event
\* of an earlier source
C4_Witness ==
    /\ pc = "done"
    /\ \E i, j \in 1..Len(response.events) :
           /\ i < j
           /\ Instant(response.events[i]) > Instant(response.events[j])
           /\ RegistryIndex(response.events[i].sourceId)
                  > RegistryIndex(response.events[j].sourceId)

\* the value each selected source's callback resolves with, in registry
\* order: a function of the feeds and the failing fetches alone
CallbackLists ==
    [i \in 1..Len(sources) |->
        FetchCallback(sources[i], feeds[sources[i]], sources[i] \in fails)]

PositionIn(events, e) == CHOOSE k \in 1..Len(events) : events[k] = e

\* C7: determinism under any completion order.  Once GET has responded, the
\* events of the response are the aggregate of the callbacks' values taken in
\* registry order and then feed order, whatever order the callbacks settled
\* in, and two events published at the same instant stand in that merge order.
C7_Determinism ==
    pc = "done" =>
        /\ response.events = Aggregate(CallbackLists, query, limit)
        /\ \A i, j \in 1..Len(response.events) :
               (i < j /\ Instant(response.events[i]) = Instant(response.events[j]))
                   => PositionIn(UniqueByUrl(Flat(CallbackLists), {}), response.events[i])
                          < PositionIn(UniqueByUrl(Flat(CallbackLists), {}), response.events[j])

\* the callbacks settled out of registry order and the response holds two
\* events of different sources published at the same instant
C7_Witness ==
    /\ pc = "done"
    /\ \E a, b \in 1..Len(settled) : a < b /\ settled[a] > settled[b]
    /\ \E i, j \in 1..Len(response.events) :
           /\ i < j
           /\ Instant(response.events[i]) = Instant(response.events[j])
           /\ response.events[i].sourceId # response.events[j].sourceId

(***************************************************************************)
(* Normalizer specification: the first source serves one item drawn from    *)
(* every combination of link, title and dates, or a well-formed item with   *)
(* any enclosure and media:content value, alone or followed by a            *)
(* well-formed item; the second source serves one well-formed item.         *)
(***************************************************************************)
HttpA == <<"h", "t", "t", "p", ":", "/", "/", "a">>
HttpsB == <<"h", "t", "t", "p", "s", ":", "/", "/", "b">>
FtpC == <<"f", "t", "p", ":", "/", "/", "c">>
XHttp == <<"x", "h", "t", "t", "p", ":", "/", "/">>

FieldPool ==
    { Item(link, title, isoDate, pubDate) :
        link \in {None, Some(<<>>), Some(U1)},
        title \in {None, Some(<<>>), Some(<<" ">>), Some(<<" ", "a", "\t">>)},
        isoDate \in {None, Some(Iso(1))},
        pubDate \in {None, Some(EmptyDate), Some(BadDate), Some(Rfc(MaxTime))} }

\* an entry of a media:content array: a non-object; an object without a url
\* key; an object with a url key holding undefined or a string
MediaEntries ==
    { [obj |-> FALSE, hasUrl |-> FALSE, url |-> None],
      [obj |-> TRUE, hasUrl |-> FALSE, url |-> None],
      [obj |-> TRUE, hasUrl |-> TRUE, url |-> None],
      [obj |-> TRUE, hasUrl |-> TRUE, url |-> Some(FtpC)],
      [obj |-> TRUE, hasUrl |-> TRUE, url |-> Some(HttpA)],
      [obj |-> TRUE, hasUrl |-> TRUE, url |-> Some(HttpsB)] }

MediaValues ==
    {None} \cup {Some(l) : l \in UNION {[1..n -> MediaEntries] : n \in 0..MaxMedia}}

EnclosureValues ==
    {None} \cup {Some([url |-> u]) : u \in {None, Some(<<>>), Some(HttpsB), Some(FtpC), Some(XHttp)}}

ImagePool ==
    { [Good(U1, 1) EXCEPT !.enclosure = enc, !.media = med] :
        enc \in EnclosureValues, med \in MediaValues }

NormPool == FieldPool \cup ImagePool

InitNorm ==
    /\ feeds \in {<<f, <<Good(U2, 1)>>, <<>> >> :
                    f \in {<<x>> : x \in NormPool}
                          \cup {<<x, Good(U2, MaxTime)>> : x \in NormPool}}
    /\ fails \in {{}, {2}}
    /\ queryParam = None
    /\ regionParam = None
    /\ limitParam = None
    /\ InitLocals

SpecNorm == InitNorm /\ [][Next]_vars

\* C3: rejection rule.  Once GET has responded, every event of the response
\* has a non-empty title, a non-empty url and a publishedAt that parses to an
\* instant, and is the event of an item of its source's feed that has a
\* title (non-empty once trimmed), a non-empty link and a publish date that
\* parses; so no event derives from an item that lacks one of the three.
C3_RejectionRule ==
    pc = "done" =>
        \A e \in Range(response.events) :
            /\ e.title # <<>>
            /\ e.url # <<>>
            /\ Instant(e) # NaN
            /\ \E item \in Range(feeds[RegistryIndex(e.sourceId)]) :
                   /\ Acceptable(item)
                   /\ normalizeEvent(RegistryIndex(e.sourceId), item) = <<"event", e>>

\* an item of the first feed is rejected for its title, another run for its
\* link, another for its dates, and the feed's other item is in the response
RejectedBeside(field) ==
    /\ pc = "done"
    /\ Len(feeds[1]) = 2
    /\ normalizeEvent(1, feeds[1][1]) = <<"null">>
    /\ CASE field = "title" ->
                feeds[1][1].title = Some(<<" ">>) /\ feeds[1][1].link = Some(U1)
                    /\ feeds[1][1].isoDate # None
         [] field = "link" ->
                feeds[1][1].title = Some(<<" ", "a", "\t">>) /\ feeds[1][1].link = Some(<<>>)
                    /\ feeds[1][1].isoDate # None
         [] OTHER ->
                feeds[1][1].title = Some(<<" ", "a", "\t">>) /\ feeds[1][1].link = Some(U1)
                    /\ feeds[1][1].isoDate = None /\ feeds[1][1].pubDate = Some(EmptyDate)
    /\ \E e \in Range(response.events) : e.sourceId = "s1"

C3_Witness == RejectedBeside("title")

(***************************************************************************)
(* Image resolution.                                                        *)
(***************************************************************************)
EnclosureMatches(item) ==
    /\ item.enclosure # None
    /\ Val(item.enclosure).url # None
    /\ HttpPattern(Val(Val(item.enclosure).url))

ExposesUrl(m) == m.obj /\ m.hasUrl
ExposesMatchingUrl(m) == ExposesUrl(m) /\ m.url # None /\ HttpPattern(Val(m.url))

FirstIndex(list, P(_)) ==
    CHOOSE i \in 1..Len(list) : P(list[i]) /\ \A j \in 1..(i - 1) : ~P(list[j])

\* the image as the claim has it: the enclosure url if it matches, else the
\* url of the first media entry that exposes a matching url, else unset
ImageFirstMatching(item) ==
    IF EnclosureMatches(item) THEN Val(item.enclosure).url
    ELSE IF item.media # None /\ \E m \in Range(Val(item.media)) : ExposesMatchingUrl(m)
    THEN Val(item.media)[FirstIndex(Val(item.media), ExposesMatchingUrl)].url
    ELSE None

\* the image as amended: the enclosure url if it matches, else the url of
\* the first media entry that exposes a url key, if that url matches, else
\* unset
ImageFirstExposing(item) ==
    IF EnclosureMatches(item) THEN Val(item.enclosure).url
    ELSE IF item.media # None /\ \E m \in Range(Val(item.media)) : ExposesUrl(m)
    THEN LET m == Val(item.media)[FirstIndex(Val(item.media), ExposesUrl)]
         IN  IF ExposesMatchingUrl(m) THEN m.url ELSE None
    ELSE None

\* the feed of a settled source whose callback did not end in its catch block
Normalized(s) ==
    /\ s \in Range(settled)
    /\ s \notin fails
    /\ \A k \in 1..Len(feeds[s]) : ~DateThrows(feeds[s][k])

\* C10 as stated: the image of the event of every accepted item is the
\* enclosure url if it matches the HTTP(S) pattern, else the url of the first
\* media-content entry that exposes a matching url, else unset, and a set
\* image starts with http:// or https://.
C10_ImageFirstMatchingEntry ==
    \A s \in SourceIdx :
        Normalized(s) =>
            \A k \in 1..Len(feeds[s]) :
                Acceptable(feeds[s][k]) =>
                    /\ \E e \in Range(results[s]) :
                           e = normalizeEvent(s, feeds[s][k])[2]
                    /\ normalizeEvent(s, feeds[s][k])[2].image
                           = ImageFirstMatching(feeds[s][k])

\* C10 as amended: the image of the event of every accepted item is the
\* enclosure url if it matches the HTTP(S) pattern, else the url of the first
\* media-content entry that exposes a url key provided that url matches,
\* else unset (a first exposing entry whose url does not match leaves the
\* image unset, whatever follows it); a set image starts with http:// or
\* https://.
C10_ImageFirstExposingEntry ==
    \A s \in SourceIdx :
        Normalized(s) =>
            /\ \A k \in 1..Len(feeds[s]) :
                   Acceptable(feeds[s][k]) =>
                       /\ \E e \in Range(results[s]) :
                              e = normalizeEvent(s, feeds[s][k])[2]
                       /\ normalizeEvent(s, feeds[s][k])[2].image
                              = ImageFirstExposing(feeds[s][k])
            /\ \A e \in Range(results[s]) :
                   e.image # None => HttpPattern(Val(e.image))

\* the first source's item has no matching enclosure and a media list whose
\* first entry exposes a non-matching url and whose second exposes a matching
\* one; its event is in the response, without image
C10_Witness ==
    /\ pc = "done"
    /\ feeds[1][1].enclosure = Some([url |-> Some(FtpC)])
    /\ feeds[1][1].media # None
    /\ Len(Val(feeds[1][1].media)) = 2
    /\ Val(feeds[1][1].media)[1].url = Some(FtpC)
    /\ Val(feeds[1][1].media)[2].url = Some(HttpA)
    /\ \E e \in Range(response.events) : e.sourceId = "s1" /\ e.image = None

(***************************************************************************)
(* Region specification: any region parameter over small feeds.             *)
(***************************************************************************)
RegionParams ==
    { None, Some(<<>>), Some(Global), Some(<<"G", "L", "O", "B", "A", "L">>),
      Some(<<"e", "u">>), Some(<<"E", "U">>), Some(<<"a", "s">>),
      Some(<<"a", "f">>), Some(<<"A", "f">>), Some(<<"u", "s">>) }

InitRegion ==
    /\ feeds \in FeedsUpTo({Good(U1, 1), Good(U2, 1)}, MaxTotal)
    /\ fails = {}
    /\ queryParam = None
    /\ regionParam \in RegionParams
    /\ limitParam = None
    /\ InitLocals

SpecRegion == InitRegion /\ [][Next]_vars

Ascending(seq) == \A i, j \in 1..Len(seq) : i < j => seq[i] < seq[j]

RegionUnset ==
    \/ regionParam = None
    \/ Val(regionParam) = <<>>
    \/ toLowerCase(Val(regionParam)) = Global

QueryParams ==
    { None, Some(<<>>), Some(<<" ">>), Some(<<" ", " ">>), Some(<<"a">>),
      Some(<<" ", "A">>), Some(<<"b", " ">>), Some(<<"a", "b">>),
      Some(<<"a", " ", "b">>), Some(<<"B", " ", "A">>) }

TextItem(u, title, snippet, content) ==
    [Good(u, 1) EXCEPT !.title = Some(title), !.contentSnippet = snippet,
                       !.content = content]

TextPool(u) ==
    { TextItem(u, title, snippet, content) :
        title \in {<<"a">>, <<"A", "b">>, <<"b">>},
        snippet \in {None, Some(<<" ">>), Some(<<" ", "B", " ", "\t", "a">>)},
        content \in {None, Some(<<"a">>)} }

InitQuery ==
    /\ feeds \in {<<<<x>>, f, <<>> >> :
                    x \in TextPool(U1),
                    f \in {<<>>} \cup {<<y>> : y \in {TextItem(U2, t, None, None) :
                                                  t \in {<<"a">>, <<"A", "b">>, <<"b">>}}}}
    /\ fails = {}
    /\ queryParam \in QueryParams
    /\ regionParam = None
    /\ limitParam = None
    /\ InitLocals

SpecQuery == InitQuery /\ [][Next]_vars

Deduplicated == UniqueByUrl(Flat(CallbackLists), {})

LoweredText(e) == toLowerCase(e.title \o <<" ">> \o e.summary)

\* C8 as stated: once GET has responded, when a non-empty query was supplied
\* the events of the response are only deduplicated events whose lower-cased
\* title, space, summary contains the lower-cased supplied query; when no
\* query or an empty one was supplied every deduplicated event is returned
\* (the limit permitting).
C8_FilterBySuppliedQuery ==
    pc = "done" =>
        IF queryParam # None /\ Val(queryParam) # <<>>
        THEN \A e \in Range(response.events) :
                 /\ e \in Range(Deduplicated)
                 /\ includes(LoweredText(e), toLowerCase(Val(queryParam)))
        ELSE Len(Deduplicated) <= limit
                 => Range(response.events) = Range(Deduplicated)

\* C8 as amended: the supplied query is trimmed and lower-cased first.  Once
\* GET has responded, when the trimmed query is non-empty the events of the
\* response are the deduplicated events whose lower-cased title, space,
\* summary contains the trimmed lower-cased query (all of them, the limit
\* permitting); when no query was supplied or it is empty once trimmed, every
\* deduplicated event is returned (the limit permitting).
C8_FilterByTrimmedQuery ==
    pc = "done" =>
        LET kept == IF queryParam # None /\ trim(Val(queryParam)) # <<>>
                    THEN {e \in Range(Deduplicated) :
                             includes(LoweredText(e),
                                      toLowerCase(trim(Val(queryParam))))}
                    ELSE Range(Deduplicated)
        IN  /\ Range(response.events) \subseteq kept
            /\ Len(Deduplicated) <= limit => Range(response.events) = kept

\* query " A" kept one event whose text holds a capital and removed another
C8_Witness ==
    /\ pc = "done"
    /\ queryParam = Some(<<" ", "A">>)
    /\ Len(response.events) = 1
    /\ response.events[1].title = <<"A", "b">>
    /\ Len(Deduplicated) = 2

(***************************************************************************)
(* Limit specification: feeds long enough for the floor and the default to *)
(* cut the response, any limit parameter.                                   *)
(***************************************************************************)
LimitParams ==
    { None, Some(<<>>), Some(<<"x">>), Some(<<"0">>), Some(<<"5">>),
      Some(<<"-", "3">>), Some(<<"1", "0">>), Some(<<"1", "1">>),
      Some(<<"6", "1">>), Some(<<"1", "2", "x">>) }

\* the k-th item of the long feed of source s: its own url, instants in turn
LongFeed(s, n) ==
    [k \in 1..n |->
        Good(<<"u", Digits[s + 1], Digits[(k \div 10) + 1], Digits[(k % 10) + 1]>>,
             1 + (k % MaxTime))]

InitLimit ==
    /\ feeds \in {<<LongFeed(1, a), LongFeed(2, b), LongFeed(3, c)>> :
                    a \in {0, 12, BigFeed}, b \in {0, BigFeed}, c \in {0, 1}}
    /\ fails \in {{}, {3}}
    /\ queryParam = None
    /\ regionParam = None
    /\ limitParam \in LimitParams
    /\ InitLocals

SpecLimit == InitLimit /\ [][Next]_vars

\* the effective limit the claim gives each limit parameter
EffectiveLimit ==
    CASE \/ limitParam = None \/ limitParam = Some(<<>>)
         \/ limitParam = Some(<<"x">>) -> 60
      [] \/ limitParam = Some(<<"0">>) \/ limitParam = Some(<<"5">>)
         \/ limitParam = Some(<<"-", "3">>) \/ limitParam = Some(<<"1", "0">>) -> 10
      [] limitParam = Some(<<"1", "1">>) -> 11
      [] limitParam = Some(<<"6", "1">>) -> 61
      [] limitParam = Some(<<"1", "2", "x">>) -> 12

Min(a, b) == IF a < b THEN a ELSE b

\* C5: limit default and floor clamp.  Once GET has responded, the response
\* holds as many events as there are to return, up to the effective limit
\* and never more: 60 for an absent or non-numeric limit, max(n, 10) for a
\* limit that parses to n, so that 0, 5 and negative limits return up to 10
\* events and not none.
C5_LimitClamp ==
    pc = "done" =>
        /\ Len(response.events) <= EffectiveLimit
        /\ Len(response.events) = Min(EffectiveLimit, Len(Deduplicated))

\* limit=0 and more than ten events to return: ten came back
C5_Witness ==
    /\ pc = "done"
    /\ limitParam = Some(<<"0">>)
    /\ Len(Deduplicated) > 10
    /\ Len(response.events) = 10

(***************************************************************************)
(* Join specification: feeds of at most one item, any set of failing        *)
(* fetches, region parameters that select all, some or none of the          *)
(* sources.  The parser's timeout (line 23) settles every fetch, and the    *)
(* event loop runs every continuation that is ready, hence weak fairness    *)
(* of each step.                                                            *)
(***************************************************************************)
InitJoin ==
    /\ feeds \in {<<a, b, c>> :
                    a \in {<<>>, <<Good(U1, 1)>>, <<BadDated(U1)>>},
                    b \in {<<>>, <<Good(U1, 1)>>, <<BadDated(U1)>>},
                    c \in {<<>>, <<Good(U2, 1)>>, <<BadDated(U1)>>}}
    /\ fails \in SUBSET SourceIdx
    /\ queryParam = None
    /\ regionParam \in {None, Some(TagEu), Some(TagAs), Some(<<"u", "s">>)}
    /\ limitParam = None
    /\ InitLocals

SpecJoin ==
    /\ InitJoin
    /\ [][Next]_vars
    /\ WF_vars(GETStart)
    /\ \A s \in SourceIdx : WF_vars(SettleFetch(s))
    /\ WF_vars(Respond)

\* C11: join-all.  No response is emitted, and no merge runs, while the
\* callback of a selected source is pending: the step that responds is taken
\* with nothing pending and every selected source settled.  When every
\* fetch settles the request responds, and it responds once: after the
\* response nothing of the request changes.
C11_JoinAll ==
    /\ [](pc = "done" => pending = {} /\ Range(settled) = Range(sources))
    /\ [][pc' = "done" /\ pc # "done"
             => pending = {} /\ Range(settled) = Range(sources)]_vars
    /\ [][response' # response => pc = "fetching" /\ pc' = "done"]_vars
    /\ [][pc = "done" => pc' = "done" /\ response' = response]_vars
    /\ <>(pc = "done")

\* GET responded after three callbacks settled, one of them with a failed
\* fetch, out of registry order
C11_Witness ==
    /\ pc = "done"
    /\ Len(settled) = 3
    /\ fails \cap Range(settled) # {}
    /\ settled[1] = 3
    /\ response.events # <<>>

====
